---- MODULE Spec2Model ----
(***************************************************************************)
(* Tamil text checker: the multi-checker orchestration core.               *)
(*                                                                         *)
(*   TamilTextAnalyzer.__init__ / analyze_text   src/main.py               *)
(*   create_error_visualization                  src/main.py               *)
(*   RuleBasedChecker, DeepLearningChecker,                                *)
(*   StatisticalChecker, GemmaChecker            src/models/*.py           *)
(*                                                                         *)
(* A record is the Python 3-tuple (error_type, msg, context), modelled as  *)
(* the TLA+ tuple <<error_type, msg, context>>.  A text is a sequence of   *)
(* tokens.  A Python dict is a sequence of <<key, value>> pairs, so that   *)
(* its insertion order is part of the state.                               *)
(***************************************************************************)
EXTENDS Integers, Sequences, FiniteSets, TLC

\* Most items the checkers of one analyze_text call hand back, all together.
MaxRecs == 2

(***************************************************************************)
(* Python dict: insertion ordered; d[k] = v keeps the position of an       *)
(* existing key and appends a new one.                                     *)
(***************************************************************************)
EmptyDict == <<>>

DictKeys(d) == [j \in 1..Len(d) |-> d[j][1]]

DictHas(d, k) == \E j \in 1..Len(d) : d[j][1] = k

DictGet(d, k) == d[CHOOSE j \in 1..Len(d) : d[j][1] = k][2]

\* d[k] = v of a mapping that puts a new key first.
DictSetFront(d, k, v) ==
    IF DictHas(d, k)
    THEN [j \in 1..Len(d) |-> IF d[j][1] = k THEN <<k, v>> ELSE d[j]]
    ELSE <<<<k, v>>>> \o d

DictSet(d, k, v) ==
    IF DictHas(d, k)
    THEN [j \in 1..Len(d) |-> IF d[j][1] = k THEN <<k, v>> ELSE d[j]]
    ELSE Append(d, <<k, v>>)

(***************************************************************************)
(* The registry built by TamilTextAnalyzer.__init__: names in insertion    *)
(* order.                                                                  *)
(***************************************************************************)
RegistryNames == <<"Rule-based", "Deep Learning", "Statistical">>

Names == {RegistryNames[j] : j \in 1..Len(RegistryNames)}

\* error_type values the repository's checkers emit.
Categories == {"spelling", "grammar", "statistical", "format", "info", "error"}

\* Input texts handed to analyze_text: the empty text and a non-empty one.
Texts == {<<>>, <<"naan", "selkiradhu">>}

SeqsUpTo(S, n) == UNION {[1..m -> S] : m \in 0..n}

\* What check_text of an arbitrary (duck-typed) checker may return: records,
\* and items that are not 3-field records (a 2-tuple).
Items(t) == {<<c, "m", t>> : c \in Categories} \cup {<<"spelling", "m">>}

\* What one checker does when analyze_text reaches it: check_text raises or
\* returns out; correct_spelling (if the checker has one) raises or returns.
Behaviours(t, n) ==
    {[raises |-> TRUE, out |-> <<>>, correct_raises |-> FALSE]} \cup
    {[raises |-> FALSE, out |-> o, correct_raises |-> c] :
        o \in SeqsUpTo(Items(t), n), c \in BOOLEAN}

(***************************************************************************)
(* analyze_text, lines 32-35: the category filter.                         *)
(***************************************************************************)
\* A filter that keeps spelling records whatever check_spelling is.
KeepSpellingAlways(error_type, cs, cg) ==
    \/ error_type = "spelling"
    \/ (error_type \in {"grammar", "statistical"} /\ cg)

Keep(error_type, cs, cg) ==
    \/ (error_type = "spelling" /\ cs)
    \/ (error_type \in {"grammar", "statistical"} /\ cg)

RECURSIVE FilterErrors(_, _, _)
FilterErrors(errors, cs, cg) ==
    IF errors = <<>> THEN <<>>
    ELSE LET r    == errors[Len(errors)]
             rest == FilterErrors(SubSeq(errors, 1, Len(errors) - 1), cs, cg)
         IN  IF Keep(r[1], cs, cg) THEN Append(rest, <<r[1], r[2], r[3]>>) ELSE rest

\* "for error_type, msg, context in errors" raises ValueError on an item
\* that does not unpack into three names.
Unpacks(errors) == \A j \in 1..Len(errors) : Len(errors[j]) = 3

\* What the operations of a checker raise: instances of Exception subclasses.
CheckTextError == [class |-> "RuntimeError", str |-> "check_text failed"]

UnpackError == [class |-> "ValueError", str |-> "not enough values to unpack"]

CorrectionError == [class |-> "RuntimeError", str |-> "correct_spelling failed"]

\* An except clause that names ValueError alone.
HandlesValueErrorOnly(e) == e.class = "ValueError"

\* "except Exception" catches every instance of an Exception subclass.
ExceptionClasses ==
    {"Exception", "ValueError", "RuntimeError", "IndexError", "AttributeError"}

Handles(e) == e.class \in ExceptionClasses

\* A synthesized record whose message is the exception's text alone.
ProcessingErrorBare(e, t) == <<"error", e.str, t>>

\* Line 42: the record synthesized in the except branch.
ProcessingError(e, t) == <<"error", "Error processing text: " \o e.str, t>>

\* An except branch that starts results over with the synthesized record.
ExceptDroppingOthers(res, cor, model_name, e, t, what) ==
    [results     |-> <<<<model_name, <<ProcessingError(e, t)>>>>>>,
     corrections |-> cor,
     outcome     |-> what,
     escaped     |-> FALSE]

\* Lines 41-42: an exception raised in the try block; res is results as the
\* try block left it.  A handled exception replaces results[model_name]; an
\* exception the clause does not handle leaves analyze_text.
Except(res, cor, model_name, e, t, what) ==
    IF Handles(e)
    THEN [results     |-> DictSet(res, model_name, <<ProcessingError(e, t)>>),
          corrections |-> cor,
          outcome     |-> what,
          escaped     |-> FALSE]
    ELSE [results |-> res, corrections |-> cor, outcome |-> what, escaped |-> TRUE]

\* Lines 39-40: the capability probe and the correction call.
Correct(cor, model_name, exp) ==
    IF exp THEN DictSet(cor, model_name, "corrected") ELSE cor

(***************************************************************************)
(* analyze_text, lines 28-42: the body of the loop for one checker, as a   *)
(* function of the mappings so far and of what the checker does.           *)
(***************************************************************************)
Body(res, cor, model_name, b, exp, t, cs, cg) ==
    IF b.raises
    THEN Except(res, cor, model_name, CheckTextError, t, "check_text raised")
    ELSE IF ~Unpacks(b.out)
    THEN Except(res, cor, model_name, UnpackError, t, "unpack raised")
    ELSE LET filtered_errors == FilterErrors(b.out, cs, cg)
             stored == DictSet(res, model_name, filtered_errors)
         IN  IF exp /\ b.correct_raises
             THEN Except(stored, cor, model_name, CorrectionError, t,
                         "correction raised")
             ELSE [results     |-> stored,
                   corrections |-> Correct(cor, model_name, exp),
                   outcome     |-> "ok",
                   escaped     |-> FALSE]

(***************************************************************************)
(* create_error_visualization, lines 48-56: one row per record whose       *)
(* error_type is not 'error'.  A row is <<Model, Error Type, Count>>.      *)
(***************************************************************************)
\* A row for every record, error records included.
ErrorTypesAll(errs) == [j \in 1..Len(errs) |-> errs[j][1]]

RECURSIVE ErrorTypes(_)
ErrorTypes(errs) ==
    IF errs = <<>> THEN <<>>
    ELSE LET rest == ErrorTypes(SubSeq(errs, 1, Len(errs) - 1))
             e    == errs[Len(errs)]
         IN  IF e[1] # "error" THEN Append(rest, e[1]) ELSE rest

Rows(model_name, error_types) ==
    [j \in 1..Len(error_types) |-> <<model_name, error_types[j], 1>>]

RECURSIVE ErrorData(_)
ErrorData(res) ==
    IF res = <<>> THEN <<>>
    ELSE ErrorData(SubSeq(res, 1, Len(res) - 1))
         \o Rows(res[Len(res)][1], ErrorTypes(res[Len(res)][2]))

(***************************************************************************)
(* The checker implementations.  A text is a sequence of tokens: words of   *)
(* a small vocabulary, the sentence delimiter "." and the line break.  The  *)
(* other delimiters of the character class [.!?|] split exactly as "."      *)
(* does; words are a blank apart unless a line break stands between them.   *)
(* A token stands for a Tamil word:                                         *)
(*   naan = நான்   naangal = நாங்கள்   selkiren = செல்கிறேன்                   *)
(*   selkiradhu = செல்கிறது   selkiraan = செல்கிறான்   salkiren = சல்கிறேன்     *)
(*   magakkuba = மகக்குப                                                    *)
(* The context of a record is a sequence of tokens (a word is <<word>>).    *)
(***************************************************************************)
\* Longest text handed to check_text, in tokens.
MaxLen == 3

Vocabulary ==
    {"naan", "naangal", "selkiren", "selkiradhu", "selkiraan", "salkiren",
     "magakkuba"}

Delimiters == {"."}

\* "\n": white space to strip() and split(), and the one character that "."
\* of a regular expression does not match (no re.DOTALL anywhere).
Newline == "newline"

Tokens == Vocabulary \cup Delimiters \cup {Newline}

AllTexts == SeqsUpTo(Tokens, MaxLen)

\* The fragments the regular expressions look for, by the word holding them.
Fragments(w) ==
    CASE w = "naan"       -> {"naan"}
      [] w = "naangal"    -> {"naangal"}
      [] w = "selkiren"   -> {"kiren"}
      [] w = "selkiradhu" -> {"kiradhu"}
      [] w = "selkiraan"  -> {"kiraan"}
      [] w = "salkiren"   -> {"sal", "kiren"}
      [] w = "magakkuba"  -> {"kku"}
      [] OTHER            -> {}

\* re.search(r'A.*B', s): A in some word, B in a later one of the same line,
\* ".*" matching no line break (no word of the vocabulary holds a subject
\* fragment before a verb fragment).
Search(subj, verb, s) ==
    \E j, k \in 1..Len(s) :
        /\ j < k /\ subj \in Fragments(s[j]) /\ verb \in Fragments(s[k])
        /\ \A m \in (j + 1)..(k - 1) : s[m] # Newline

\* The lines of s: the pieces between line breaks.
RECURSIVE LinesFrom(_, _, _)
LinesFrom(s, k, cur) ==
    IF k > Len(s) THEN <<cur>>
    ELSE IF s[k] = Newline THEN <<cur>> \o LinesFrom(s, k + 1, <<>>)
    ELSE LinesFrom(s, k + 1, Append(cur, s[k]))

\* re.finditer(r'A.*B', s): ".*" is greedy and stays in its line, so every
\* line that holds a match holds exactly one.
FindIter(subj, verb, s) ==
    LET lines == LinesFrom(s, 1, <<>>)
    IN  Cardinality({k \in 1..Len(lines) : Search(subj, verb, lines[k])})

\* trivial_tokenize(text) and text.split(): the tokens that are not white space.
RECURSIVE Words(_)
Words(s) ==
    IF s = <<>> THEN <<>>
    ELSE (IF Head(s) = Newline THEN <<>> ELSE <<Head(s)>>) \o Words(Tail(s))

\* s.strip(): white space at both ends removed.
RECURSIVE Strip(_)
Strip(s) ==
    IF s = <<>> THEN <<>>
    ELSE IF Head(s) = Newline THEN Strip(Tail(s))
    ELSE IF s[Len(s)] = Newline THEN Strip(SubSeq(s, 1, Len(s) - 1))
    ELSE s

\* re.match(r'சல்', word): the word starts with the fragment.
StartsWithSal(w) == w = "salkiren"

\* re.match(r'\w+க்கு\w+', word): word characters right before and after க்கு.
SpacedKku(w) == w = "magakkuba"

\* split_sentences / _split_sentences: re.split(r'[.!?|]', text), each piece
\* stripped, empty pieces dropped.
RECURSIVE SplitFrom(_, _, _)
SplitFrom(t, k, cur) ==
    IF k > Len(t)
    THEN IF Strip(cur) = <<>> THEN <<>> ELSE <<Strip(cur)>>
    ELSE IF t[k] \in Delimiters
    THEN (IF Strip(cur) = <<>> THEN <<>> ELSE <<Strip(cur)>>)
         \o SplitFrom(t, k + 1, <<>>)
    ELSE SplitFrom(t, k + 1, Append(cur, t[k]))

split_sentences(t) == SplitFrom(t, 1, <<>>)

RECURSIVE Flatten(_)
Flatten(seqs) == IF seqs = <<>> THEN <<>> ELSE Head(seqs) \o Flatten(Tail(seqs))

\* What a helper of a checker raises when it fails.
HelperError == [class |-> "RuntimeError", str |-> "helper failed"]

\* The try/except of a check_text: a handled exception becomes the single
\* error record, a value is returned as it is.
Guarded(failed, e, prefix, t, value) ==
    IF ~failed THEN [raised |-> FALSE, ret |-> value]
    ELSE IF Handles(e) THEN [raised |-> FALSE, ret |-> <<<<"error", prefix \o e.str, t>>>>]
    ELSE [raised |-> TRUE, ret |-> <<>>]

(***************************************************************************)
(* RuleBasedChecker                                                        *)
(***************************************************************************)
\* _load_tamil_dictionary: the words of basic_dictionary among the vocabulary.
tamil_words == {"naan", "naangal", "selkiren", "selkiradhu", "selkiraan"}

\* grammar_rules['subject_verb_agreement'], in order.
subject_verb_agreement ==
    << <<"naan", "kiraarkal", "First person singular with plural verb">>,
       <<"naan", "kiraar", "First person singular with formal verb">>,
       <<"naan", "kiradhu", "First person with neuter verb">>,
       <<"naangal", "kiraan", "First person plural with singular verb">>,
       <<"naangal", "kiraal", "First person plural with feminine singular">>,
       <<"nee", "kiraarkal", "Second person singular with plural verb">>,
       <<"neengal", "kiraan", "Second person plural with singular verb">>,
       <<"aasiriyar", "kiraan", "Honorific subject with informal verb">> >>

\* check_spelling, lines 82-95: the records of one word (a delimiter is a
\* token of trivial_tokenize too, and no word of the dictionary).
WordErrors(w) ==
    (IF StartsWithSal(w)
     THEN <<<<"spelling", "Possible misspelling of sel", <<w>>>>>> ELSE <<>>)
    \o (IF w \notin tamil_words
        THEN <<<<"spelling", "Unknown word: " \o w, <<w>>>>>> ELSE <<>>)
    \o (IF SpacedKku(w)
        THEN <<<<"spelling", "Missing space before kku", <<w>>>>>> ELSE <<>>)

check_spelling_words(t) ==
    LET words == Words(t)
    IN  Flatten([k \in 1..Len(words) |-> WordErrors(words[k])])

\* check_grammar, lines 112-116: the records of one sentence.
RECURSIVE RuleErrors(_, _, _)
RuleErrors(rules, k, sentence) ==
    IF k > Len(rules) THEN <<>>
    ELSE (IF Search(rules[k][1], rules[k][2], sentence)
          THEN <<<<"grammar", rules[k][3], sentence>>>> ELSE <<>>)
         \o RuleErrors(rules, k + 1, sentence)

check_grammar_sentences(t) ==
    LET sentences == split_sentences(t)
    IN  Flatten([k \in 1..Len(sentences) |->
                    RuleErrors(subject_verb_agreement, 1, sentences[k])])

\* check_text; fault names the helper that raises, if any.
RuleBasedCheckText(t, fault) ==
    Guarded(fault \in {"check_spelling", "check_grammar"}, HelperError,
            "Error in text analysis: ", t,
            check_spelling_words(t) \o check_grammar_sentences(t))

(***************************************************************************)
(* DeepLearningChecker                                                     *)
(***************************************************************************)
\* tamil_patterns['grammar'], in order.
dl_grammar ==
    << <<"naan", "kiradhu", "First person with neuter verb - use kiren instead">>,
       <<"naangal", "kiraan", "Plural subject with singular verb - use kirom instead">>,
       <<"avar", "kiren", "Third person honorific with first person verb - use kiraar instead">>,
       <<"neengal", "kiraan", "Honorific subject with informal verb - use kireergal instead">> >>

\* Line 111: a word is unusual when its probability is below 0.1 (in percent).
UnusualBelow == 10

\* _assess_word_probability on one sentence: no scores without a model or
\* when the assessment fails (lines 60-61, 81-83); else a score per word, the
\* words in low being those the masked model finds improbable.
assess_word_probability(sentence, loaded, fault, low) ==
    IF ~loaded \/ fault = "assess" THEN <<>>
    ELSE LET words == Words(sentence)
         IN  [k \in 1..Len(words) |->
                <<words[k], IF words[k] \in low THEN 5 ELSE 50>>]

\* _check_patterns on one sentence: grammar, then spelling, then spacing, a
\* record for every match of finditer.
RECURSIVE DlGrammar(_, _)
DlGrammar(k, sentence) ==
    IF k > Len(dl_grammar) THEN <<>>
    ELSE [m \in 1..FindIter(dl_grammar[k][1], dl_grammar[k][2], sentence) |->
            <<"grammar", dl_grammar[k][3], sentence>>]
         \o DlGrammar(k + 1, sentence)

check_patterns(sentence) ==
    DlGrammar(1, sentence)
    \o Flatten([k \in 1..Len(sentence) |->
                 IF "sal" \in Fragments(sentence[k])
                 THEN <<<<"spelling", "Suggestion: Replace sal with sel", sentence>>>>
                 ELSE <<>>])
    \o Flatten([k \in 1..Len(sentence) |->
                 IF SpacedKku(sentence[k])
                 THEN <<<<"format", "Add space before kku", sentence>>>>
                 ELSE <<>>])

Unusual(scores, sentence) ==
    Flatten([k \in 1..Len(scores) |->
              IF scores[k][2] < UnusualBelow
              THEN <<<<"spelling", "Unusual word detected: " \o scores[k][1], sentence>>>>
              ELSE <<>>])

\* check_text, lines 106-115.
DeepLearningCheckText(t, loaded, fault, low) ==
    LET sentences == split_sentences(t)
    IN  Guarded(fault \in {"split_sentences", "check_patterns"}, HelperError,
                "Error in analysis: ", t,
                Flatten([k \in 1..Len(sentences) |->
                    check_patterns(sentences[k])
                    \o Unusual(assess_word_probability(sentences[k], loaded, fault, low),
                               sentences[k])]))

(***************************************************************************)
(* StatisticalChecker                                                      *)
(***************************************************************************)
\* predict_proba(features)[0] of a classifier fitted on labels that are all 1
\* (lines 28-29): one class, probability 1 (in percent).
predict_proba == <<100>>

\* Lines 84, 87: the confidence a prediction has to reach (in percent).
ConfidenceBelow == 80

IndexError == [class |-> "IndexError", str |-> "index 1 is out of bounds"]

\* _analyze_patterns on the whole text: no word of the vocabulary matches a
\* pattern of common_errors; context_rules in order.
analyze_patterns(t) ==
    (IF Search("naan", "kiraarkal", t)
     THEN <<<<"statistical", "Context error: subject_verb_mismatch", t>>>> ELSE <<>>)
    \o (IF Search("naangal", "kiraan", t)
        THEN <<<<"statistical", "Context error: number_mismatch", t>>>> ELSE <<>>)

\* Lines 84-88: the message formats pred[1], which a one-class prediction
\* does not have.
Confidence(pred, msg, t) ==
    IF pred[1] < ConfidenceBelow
    THEN [fails |-> Len(pred) < 2, recs |-> <<<<"statistical", msg, t>>>>]
    ELSE [fails |-> FALSE, recs |-> <<>>]

\* check_text, lines 74-93.
StatisticalCheckText(t, fault) ==
    LET sp == Confidence(predict_proba, "Possible spelling errors", t)
        gr == Confidence(predict_proba, "Possible grammar errors", t)
    IN  Guarded(fault = "extract_features" \/ sp.fails \/ gr.fails,
                IF fault = "extract_features" THEN HelperError ELSE IndexError,
                "Error during analysis: ", t,
                sp.recs \o gr.recs \o analyze_patterns(t))

(***************************************************************************)
(* GemmaChecker                                                            *)
(***************************************************************************)
\* What the completion request does.
ApiOutcomes == {"advice", "advice starting with Error", "no content",
                "model_decommissioned", "request failed"}

StartsWith(str, prefix) ==
    Len(str) >= Len(prefix) /\ SubSeq(str, 1, Len(prefix)) = prefix

\* get_suggestions, lines 38-63: the content of the completion, or a string
\* for the exception of the request.  "none" stands for a content of None.
get_suggestions(api) ==
    CASE api = "advice" -> "1. Corrected version of the text"
      [] api = "advice starting with Error" -> "Errors found in the text"
      [] api = "no content" -> "none"
      [] api = "model_decommissioned" ->
            "Error: The model is no longer supported. Please contact the administrator to update the model."
      [] OTHER -> "Error getting suggestions: " \o "request failed"

AttributeError ==
    [class |-> "AttributeError",
     str |-> "'NoneType' object has no attribute 'startswith'"]

\* A check_text that hands every suggestion on as an info record.
GemmaCheckTextAllInfo(t, api) ==
    Guarded(api = "no content", AttributeError, "Error checking text: ", t,
            <<<<"info", get_suggestions(api), t>>>>)

\* check_text, lines 65-83.
GemmaCheckText(t, api) ==
    LET suggestions == get_suggestions(api)
    IN  Guarded(api = "no content", AttributeError, "Error checking text: ", t,
                IF StartsWith(suggestions, "Error")
                THEN <<<<"error", suggestions, t>>>>
                ELSE <<<<"info", suggestions, t>>>>)

VARIABLES
    models,          \* self.models: the registry's names, in insertion order
    exposes,         \* name -> hasattr(model, 'correct_spelling')
    pc,              \* "new" | "init raised" | "idle" | "loop" | "returned" |
                     \* "shown" | "raised"
    text, check_spelling, check_grammar,   \* arguments of the running call
    i,               \* position of the for loop of line 27 in models
    results,         \* dict name -> list of records
    corrections,     \* dict name -> string
    error_data,      \* rows built by create_error_visualization for the last call
    invoked,         \* names whose check_text was called, in call order
    outcome,         \* name -> what happened in its iteration of this call
    errors,          \* what the last check_text call returned (<<>> if it raised)
    handed,          \* items handed back by the checkers in this call
    model_loaded,    \* DeepLearningChecker: self.model and self.tokenizer are set
    checker,         \* the class whose check_text ran last ("none": none yet)
    fault,           \* what failed inside that call ("none": nothing)
    returned,        \* what that call returned
    raised,          \* that call left check_text by an exception
    failure,         \* something failed inside that call
    checkers,        \* name -> text -> what the checker does on that text
    remembered       \* an earlier call: its arguments and what it returned

analyzerVars == <<models, exposes, pc, check_spelling, check_grammar, i,
                  results, corrections, error_data, invoked, outcome, errors, handed>>

checkerVars == <<model_loaded, checker, fault, returned, raised, failure>>

callVars == <<checkers, remembered>>

vars == <<analyzerVars, text, checkerVars, callVars>>

(***************************************************************************)
(* analyze_text reaches a checker only through check_text and, if the      *)
(* object has one, correct_spelling (hasattr, line 39).  The analyzer is   *)
(* therefore modelled over checkers that may do anything a Python object   *)
(* can do there: return records or other items, or raise.  RuleBasedChecker,*)
(* DeepLearningChecker and StatisticalChecker as written define no         *)
(* correct_spelling; they are modelled further down.                       *)
(***************************************************************************)
NoOutcome == [n \in Names |-> "none"]

Raising == [raises |-> TRUE, out |-> <<>>, correct_raises |-> FALSE]

NoCheckers == [n \in Names |-> [t \in Texts |-> Raising]]

NotRemembered ==
    [set |-> FALSE, args |-> <<<<>>, FALSE, FALSE>>, results |-> EmptyDict,
     corrections |-> EmptyDict, others |-> FALSE]

Init ==
    /\ models = RegistryNames
    /\ exposes \in [Names -> BOOLEAN]
    /\ pc = "idle"
    /\ text = <<>>
    /\ check_spelling = FALSE
    /\ check_grammar = FALSE
    /\ i = 1
    /\ results = EmptyDict
    /\ corrections = EmptyDict
    /\ error_data = <<>>
    /\ invoked = <<>>
    /\ outcome = NoOutcome
    /\ errors = <<>>
    /\ handed = 0
    /\ model_loaded = TRUE
    /\ checker = "none"
    /\ fault = "none"
    /\ returned = <<>>
    /\ raised = FALSE
    /\ failure = FALSE
    /\ checkers = NoCheckers
    /\ remembered = NotRemembered

\* A mapping a call starts with that is the one the call before left.
StaleCorrections == corrections

\* Lines 24-25: the mappings a call starts with.
StartResults == EmptyDict

StartCorrections == EmptyDict

\* Lines 19-25: a call starts.
Analyze(t, cs, cg) ==
    /\ pc \in {"idle", "returned", "shown"}
    /\ pc' = "loop"
    /\ text' = t /\ check_spelling' = cs /\ check_grammar' = cg
    /\ i' = 1
    /\ results' = StartResults
    /\ corrections' = StartCorrections
    /\ invoked' = <<>>
    /\ outcome' = NoOutcome
    /\ errors' = <<>>
    /\ handed' = 0
    /\ error_data' = <<>>
    /\ UNCHANGED <<models, exposes, checkerVars, callVars>>

\* Lines 27-42: one turn of the loop, with the checker doing b.
Iteration(b) ==
    /\ pc = "loop" /\ i <= Len(models)
    /\ LET model_name == models[i]
           after == Body(results, corrections, model_name, b, exposes[model_name],
                         text, check_spelling, check_grammar)
       IN
        /\ results' = after.results
        /\ corrections' = after.corrections
        /\ outcome' = [outcome EXCEPT ![model_name] = after.outcome]
        /\ invoked' = Append(invoked, model_name)
        /\ pc' = IF after.escaped THEN "raised" ELSE "loop"
    /\ errors' = b.out
    /\ handed' = handed + Len(b.out)
    /\ i' = i + 1
    /\ UNCHANGED <<models, exposes, text, check_spelling, check_grammar,
                   error_data, checkerVars, callVars>>

\* Line 44: the call returns (results, corrections); its locals are gone.
Return ==
    /\ pc = "loop" /\ i > Len(models)
    /\ pc' = "returned"
    /\ errors' = <<>>
    /\ UNCHANGED <<models, exposes, text, check_spelling, check_grammar, i,
                   results, corrections, error_data, invoked, outcome, handed,
                   checkerVars, callVars>>

\* main, lines 160-162: create_error_visualization(results).
Visualize ==
    /\ pc = "returned"
    /\ pc' = "shown"
    /\ error_data' = ErrorData(results)
    /\ UNCHANGED <<models, exposes, text, check_spelling, check_grammar, i,
                   results, corrections, invoked, outcome, errors, handed,
                   checkerVars, callVars>>

Next ==
    \/ /\ pc \in {"idle", "returned", "shown"}
       /\ \E t \in Texts, cs \in BOOLEAN, cg \in BOOLEAN : Analyze(t, cs, cg)
    \/ /\ pc = "loop" /\ i <= Len(models)
       /\ \E b \in Behaviours(text, MaxRecs - handed) : Iteration(b)
    \/ Return
    \/ Visualize

Spec == Init /\ [][Next]_vars

(***************************************************************************)
(* The checker implementations on their own: check_text of each class on   *)
(* every text, with and without a failure inside the call.                 *)
(***************************************************************************)
InitCheckers ==
    /\ models = RegistryNames
    /\ exposes = [n \in Names |-> FALSE]
    /\ pc = "idle"
    /\ text = <<>>
    /\ check_spelling = FALSE
    /\ check_grammar = FALSE
    /\ i = 1
    /\ results = EmptyDict
    /\ corrections = EmptyDict
    /\ error_data = <<>>
    /\ invoked = <<>>
    /\ outcome = NoOutcome
    /\ errors = <<>>
    /\ handed = 0
    /\ model_loaded \in BOOLEAN
    /\ checker = "none"
    /\ fault = "none"
    /\ returned = <<>>
    /\ raised = FALSE
    /\ failure = FALSE
    /\ checkers = NoCheckers
    /\ remembered = NotRemembered

Called(class, t, f, r, failed) ==
    /\ checker = "none"
    /\ checker' = class
    /\ text' = t
    /\ fault' = f
    /\ returned' = r.ret
    /\ raised' = r.raised
    /\ failure' = failed
    /\ UNCHANGED <<analyzerVars, model_loaded, callVars>>

RuleBasedCall(t, f) ==
    Called("RuleBasedChecker", t, f, RuleBasedCheckText(t, f), f # "none")

DeepLearningCall(t, f, low) ==
    /\ f = "assess" => model_loaded
    /\ Called("DeepLearningChecker", t, f,
              DeepLearningCheckText(t, model_loaded, f, low),
              f # "none" \/ ~model_loaded)

StatisticalCall(t, f) ==
    Called("StatisticalChecker", t, f, StatisticalCheckText(t, f), f # "none")

GemmaCall(t, api) ==
    Called("GemmaChecker", t, api, GemmaCheckText(t, api),
           api \in {"no content", "model_decommissioned", "request failed"})

\* The caller is done with what check_text returned.
Forget ==
    /\ checker # "none"
    /\ checker' = "none"
    /\ fault' = "none"
    /\ returned' = <<>>
    /\ raised' = FALSE
    /\ failure' = FALSE
    /\ text' = <<>>
    /\ UNCHANGED <<analyzerVars, model_loaded, callVars>>

WordsOf(t) == {t[k] : k \in 1..Len(t)} \ (Delimiters \cup {Newline})

\* One check_text call at a time: a call starts when none is being looked at.
NextCheckers ==
    \/ /\ checker = "none"
       /\ \E t \in AllTexts, f \in {"none", "check_spelling", "check_grammar"} :
            RuleBasedCall(t, f)
    \/ /\ checker = "none"
       /\ \E t \in AllTexts,
             f \in {"none", "split_sentences", "check_patterns", "assess"} :
            \E low \in SUBSET WordsOf(t) : DeepLearningCall(t, f, low)
    \/ /\ checker = "none"
       /\ \E t \in AllTexts, f \in {"none", "extract_features"} : StatisticalCall(t, f)
    \/ /\ checker = "none"
       /\ \E t \in AllTexts, api \in ApiOutcomes : GemmaCall(t, api)
    \/ Forget

SpecCheckers == InitCheckers /\ [][NextCheckers]_vars

(***************************************************************************)
(* Calls of analyze_text one after another, each as one step, on checkers  *)
(* whose operations are pure functions of the text.                        *)
(***************************************************************************)
\* What a pure checker does on a text: check_text raises, or returns two
\* records and the correction returns, or returns them and the correction
\* raises.
PureBehaviours(t) ==
    {Raising} \cup
    {[raises |-> FALSE,
      out |-> << <<"spelling", "m", t>>, <<"grammar", "m", t>> >>,
      correct_raises |-> c] : c \in BOOLEAN}

InitCalls ==
    /\ models = RegistryNames
    /\ exposes \in [Names -> BOOLEAN]
    /\ pc = "idle"
    /\ text = <<>>
    /\ check_spelling = FALSE
    /\ check_grammar = FALSE
    /\ i = 1
    /\ results = EmptyDict
    /\ corrections = EmptyDict
    /\ error_data = <<>>
    /\ invoked = <<>>
    /\ outcome = NoOutcome
    /\ errors = <<>>
    /\ handed = 0
    /\ model_loaded = TRUE
    /\ checker = "none"
    /\ fault = "none"
    /\ returned = <<>>
    /\ raised = FALSE
    /\ failure = FALSE
    /\ checkers \in [Names -> [Texts -> UNION {PureBehaviours(t) : t \in Texts}]]
    /\ \A n \in Names : \A t \in Texts :
        /\ checkers[n][t] \in PureBehaviours(t)
        /\ checkers[n][t].correct_raises => exposes[n]
    /\ remembered = NotRemembered

\* Lines 27-42: the loop from the k-th checker on.
RECURSIVE RunLoop(_, _, _, _, _, _, _)
RunLoop(k, res, cor, out, t, cs, cg) ==
    IF k > Len(models)
    THEN [results |-> res, corrections |-> cor, outcome |-> out, escaped |-> FALSE]
    ELSE LET model_name == models[k]
             after == Body(res, cor, model_name, checkers[model_name][t],
                           exposes[model_name], t, cs, cg)
         IN  IF after.escaped
             THEN [results |-> after.results, corrections |-> after.corrections,
                   outcome |-> [out EXCEPT ![model_name] = after.outcome],
                   escaped |-> TRUE]
             ELSE RunLoop(k + 1, after.results, after.corrections,
                          [out EXCEPT ![model_name] = after.outcome], t, cs, cg)

\* Lines 19-44: a whole call.
AnalyzeCall(t, cs, cg) ==
    /\ pc \in {"idle", "returned"}
    /\ text' = t /\ check_spelling' = cs /\ check_grammar' = cg
    /\ \E run \in {RunLoop(1, StartResults, StartCorrections, NoOutcome, t, cs, cg)} :
        /\ results' = run.results
        /\ corrections' = run.corrections
        /\ outcome' = run.outcome
        /\ pc' = IF run.escaped THEN "raised" ELSE "returned"
    /\ i' = Len(models) + 1
    /\ invoked' = models
    /\ remembered' = IF remembered.set /\ remembered.args # <<t, cs, cg>>
                     THEN [remembered EXCEPT !.others = TRUE]
                     ELSE remembered
    /\ UNCHANGED <<models, exposes, error_data, errors, handed, checkerVars, checkers>>

\* The caller keeps what a call returned, to compare a later call with it.
Remember ==
    /\ pc = "returned"
    /\ ~remembered.set
    /\ remembered' = [set |-> TRUE,
                      args |-> <<text, check_spelling, check_grammar>>,
                      results |-> results,
                      corrections |-> corrections,
                      others |-> FALSE]
    /\ UNCHANGED <<analyzerVars, text, checkerVars, checkers>>

NextCalls ==
    \/ /\ pc \in {"idle", "returned"}
       /\ \E t \in Texts, cs \in BOOLEAN, cg \in BOOLEAN : AnalyzeCall(t, cs, cg)
    \/ Remember

SpecCalls == InitCalls /\ [][NextCalls]_vars

(***************************************************************************)
(* The application: TamilTextAnalyzer() as main builds it (line 77), then  *)
(* analyze_text over the three checkers of the registry as they are        *)
(* written.                                                                *)
(***************************************************************************)
InitApp ==
    /\ models = <<>>
    /\ exposes = [n \in Names |-> FALSE]
    /\ pc = "new"
    /\ text = <<>>
    /\ check_spelling = FALSE
    /\ check_grammar = FALSE
    /\ i = 1
    /\ results = EmptyDict
    /\ corrections = EmptyDict
    /\ error_data = <<>>
    /\ invoked = <<>>
    /\ outcome = NoOutcome
    /\ errors = <<>>
    /\ handed = 0
    /\ model_loaded = FALSE
    /\ checker = "none"
    /\ fault = "none"
    /\ returned = <<>>
    /\ raised = FALSE
    /\ failure = FALSE
    /\ checkers = NoCheckers
    /\ remembered = NotRemembered

\* What the constructors meet: data/tamil_dictionary.txt is absent
\* (FileNotFoundError, handled at rule_based_model.py line 67) or cannot be
\* read (PermissionError, IsADirectoryError, UnicodeDecodeError: not handled);
\* the pretrained model can be loaded or not.
DictionaryFiles == {"absent", "unreadable"}

\* RuleBasedChecker.__init__ raises.
RuleBasedInitRaises(dictionary_file) == dictionary_file = "unreadable"

\* DeepLearningChecker._initialize_model, lines 20-27: self.model is set
\* exactly when loading raised nothing; the exception is printed and dropped.
InitializeModel(model_available) == model_available

\* TamilTextAnalyzer.__init__, lines 11-16: the dict display builds the three
\* checkers in order, outside any try; self.models is bound when all three
\* constructors returned.
Construct(dictionary_file, model_available) ==
    /\ pc = "new"
    /\ IF RuleBasedInitRaises(dictionary_file)
       THEN /\ pc' = "init raised"
            /\ models' = <<>>
            /\ model_loaded' = FALSE
       ELSE /\ pc' = "idle"
            /\ models' = RegistryNames
            /\ model_loaded' = InitializeModel(model_available)
    /\ UNCHANGED <<exposes, text, check_spelling, check_grammar, i, results,
                   corrections, error_data, invoked, outcome, errors, handed,
                   checker, fault, returned, raised, failure, callVars>>

\* The class registered under a name.
ClassOf(model_name) ==
    CASE model_name = "Rule-based"    -> "RuleBasedChecker"
      [] model_name = "Deep Learning" -> "DeepLearningChecker"
      [] model_name = "Statistical"   -> "StatisticalChecker"

\* The helper failures a call of analyze_text is run with, by class.
HelperFaults(class) ==
    CASE class = "RuleBasedChecker"    -> {"none", "check_spelling"}
      [] class = "DeepLearningChecker" -> {"none", "check_patterns"}
      [] class = "StatisticalChecker"  -> {"none", "extract_features"}

\* model.check_text(text) of line 29 on the registered object.
CheckText(class, t, loaded, f, low) ==
    CASE class = "RuleBasedChecker"    -> RuleBasedCheckText(t, f)
      [] class = "DeepLearningChecker" -> DeepLearningCheckText(t, loaded, f, low)
      [] class = "StatisticalChecker"  -> StatisticalCheckText(t, f)

\* Lines 27-42: one turn of the loop on the registered checker.
RegisteredIteration(f, low) ==
    /\ pc = "loop" /\ i <= Len(models)
    /\ \E r \in {CheckText(ClassOf(models[i]), text, model_loaded, f, low)} :
        LET model_name == models[i]
            b == [raises |-> r.raised, out |-> r.ret, correct_raises |-> FALSE]
            after == Body(results, corrections, model_name, b, exposes[model_name],
                          text, check_spelling, check_grammar)
        IN
        /\ results' = after.results
        /\ corrections' = after.corrections
        /\ outcome' = [outcome EXCEPT ![model_name] = after.outcome]
        /\ invoked' = Append(invoked, model_name)
        /\ pc' = IF after.escaped THEN "raised" ELSE "loop"
        /\ errors' = r.ret
        /\ handed' = handed + Len(r.ret)
        /\ returned' = r.ret
        /\ raised' = r.raised
    /\ checker' = ClassOf(models[i])
    /\ fault' = f
    /\ failure' = (f # "none" \/ (ClassOf(models[i]) = "DeepLearningChecker"
                                  /\ ~model_loaded))
    /\ i' = i + 1
    /\ UNCHANGED <<models, exposes, text, check_spelling, check_grammar,
                   error_data, model_loaded, callVars>>

\* main, lines 128-177: the results of the call have been displayed and the
\* run of the script is over; nothing of the call is kept.
Displayed ==
    /\ pc = "returned"
    /\ pc' = "idle"
    /\ text' = <<>> /\ check_spelling' = FALSE /\ check_grammar' = FALSE
    /\ i' = 1
    /\ results' = EmptyDict
    /\ corrections' = EmptyDict
    /\ invoked' = <<>>
    /\ outcome' = NoOutcome
    /\ handed' = 0
    /\ checker' = "none"
    /\ fault' = "none"
    /\ returned' = <<>>
    /\ raised' = FALSE
    /\ failure' = FALSE
    /\ UNCHANGED <<models, exposes, errors, error_data, model_loaded, callVars>>

NextApp ==
    \/ /\ pc = "new"
       /\ \E d \in DictionaryFiles, m \in BOOLEAN : Construct(d, m)
    \/ /\ pc = "idle"
       /\ \E t \in AllTexts, cs \in BOOLEAN, cg \in BOOLEAN : Analyze(t, cs, cg)
    \/ Displayed
    \/ /\ pc = "loop" /\ i <= Len(models)
       /\ \E f \in HelperFaults(ClassOf(models[i])),
             low \in {{}, WordsOf(text)} : RegisteredIteration(f, low)
    \/ Return

SpecApp == InitApp /\ [][NextApp]_vars

(***************************************************************************)
(* Properties of analyze_text and create_error_visualization.             *)
(***************************************************************************)

\* The checker whose turn of the loop has just run.
JustRan == pc = "loop" /\ i > 1

Last == models[i - 1]

Occurs(r, seq) == \E k \in 1..Len(seq) : seq[k] = r

RECURSIVE IsSubsequence(_, _)
IsSubsequence(sub, seq) ==
    IF sub = <<>> THEN TRUE
    ELSE IF seq = <<>> THEN FALSE
    ELSE IF Head(sub) = Head(seq) THEN IsSubsequence(Tail(sub), Tail(seq))
    ELSE IsSubsequence(sub, Tail(seq))

\* The filtering law as the specification words it.
PassesLaw(category, cs, cg) ==
    \/ (category = "spelling" /\ cs)
    \/ (category \in {"grammar", "statistical"} /\ cg)
    \/ category \notin {"spelling", "grammar", "statistical"}

\* C1: every record a checker returned is in results[name] exactly when it is
\* a spelling record and check_spelling is set, or a grammar or statistical
\* record and check_grammar is set, or of any other category (error, info and
\* format records always pass).
C1_FilteringLaw ==
    (JustRan /\ outcome[Last] = "ok") =>
        \A j \in 1..Len(errors) :
            Occurs(errors[j], DictGet(results, Last))
                <=> PassesLaw(errors[j][1], check_spelling, check_grammar)

OneErrorRecord(recs) == Len(recs) = 1 /\ recs[1][1] = "error"

\* An entry of results or corrections that the step leaves as it was.
KeptEntry(d, e, n) ==
    /\ DictHas(d, n) <=> DictHas(e, n)
    /\ DictHas(d, n) => DictGet(e, n) = DictGet(d, n)

C2_RaisedHasOneError ==
    \A n \in Names :
        outcome[n] = "check_text raised" =>
            DictHas(results, n) /\ OneErrorRecord(DictGet(results, n))

C2_OthersAsWithoutRaise ==
    (JustRan /\ outcome[Last] = "ok") =>
        DictGet(results, Last) = FilterErrors(errors, check_spelling, check_grammar)

C2_RaiseTouchesNothingElse ==
    (pc = "loop" /\ i <= Len(models) /\ outcome'[models[i]] = "check_text raised") =>
        /\ \A n \in Names \ {models[i]} : KeptEntry(results, results', n)
        /\ corrections' = corrections
        /\ pc' = "loop" /\ i' = i + 1

\* C2: when check_text of a checker raises, results of that checker holds
\* exactly one record, of category error; the step changes no entry of another
\* checker, the loop goes on to the next checker, and the entry of a checker
\* whose operations all returned is the filtered sequence it returned,
\* whatever the checkers before it did.
C2_FailureIsolation ==
    /\ [](C2_RaisedHasOneError /\ C2_OthersAsWithoutRaise)
    /\ [][C2_RaiseTouchesNothingElse]_vars

\* C2 witness: the call returned, the second checker's check_text raised, the
\* first and third checkers have findings in results.
C2_Witness ==
    /\ pc = "returned"
    /\ outcome[models[2]] = "check_text raised"
    /\ outcome[models[1]] = "ok" /\ Len(DictGet(results, models[1])) = 1
    /\ outcome[models[3]] = "ok" /\ Len(DictGet(results, models[3])) = 1

\* C3: analyze_text never leaves by an exception, its loop position stays
\* within the registry, and the results it returns have exactly the registry's
\* names as keys, each once, whatever the text, the flags and the checkers do.
C3_Total ==
    /\ pc # "raised"
    /\ pc = "loop" => i \in 1..(Len(models) + 1)
    /\ pc \in {"returned", "shown"} =>
        /\ {results[k][1] : k \in 1..Len(results)} = Names
        /\ Len(results) = Len(models)

\* C3 witness: a call on the empty text returned although one checker's
\* check_text raised, one returned an item that is no record, and one found
\* nothing (its entry is the empty sequence).
C3_Witness ==
    /\ pc = "returned" /\ text = <<>>
    /\ \E a, b, c \in Names :
        /\ outcome[a] = "check_text raised"
        /\ outcome[b] = "unpack raised"
        /\ outcome[c] = "ok" /\ DictGet(results, c) = <<>>

\* C4: when check_text returned and the correction call raised, corrections
\* holds a string for the checker and results still holds the filtered records
\* check_text produced.
C4_CorrectionFailureKeepsFindings ==
    (JustRan /\ outcome[Last] = "correction raised") =>
        /\ DictHas(corrections, Last)
        /\ DictGet(results, Last) = FilterErrors(errors, check_spelling, check_grammar)

\* C5: the keys of results are the registry's names in registry order (a
\* prefix of it while the loop runs, all of it at return), the keys of
\* corrections are a subsequence of that order holding only checkers that have
\* a correction operation, and the checkers are invoked one after another in
\* registry order.
C5_RegistryOrder ==
    /\ pc \in {"loop", "returned", "shown"} =>
        /\ invoked = SubSeq(models, 1, i - 1)
        /\ DictKeys(results) = invoked
        /\ IsSubsequence(DictKeys(corrections), models)
        /\ \A k \in 1..Len(corrections) : exposes[corrections[k][1]]
    /\ pc \in {"returned", "shown"} => DictKeys(results) = models

\* C5 witness: a returned call in which the first checker has no correction
\* operation, the second one's check_text raised and the third one's
\* correction is stored.
C5_Witness ==
    /\ pc = "returned"
    /\ ~exposes[models[1]] /\ outcome[models[1]] = "ok"
    /\ outcome[models[2]] = "check_text raised"
    /\ DictKeys(corrections) = <<models[3]>>

\* C6: whenever check_text returned a sequence of records, results[name] is an
\* order-preserving subsequence of that sequence: its records, unchanged, in
\* their order, and no record from anywhere else.
C6_SubsequenceOfReturned ==
    (JustRan /\ outcome[Last] \in {"ok", "correction raised"}) =>
        IsSubsequence(DictGet(results, Last), errors)

\* C7: with both flags false no entry of results holds a spelling, grammar or
\* statistical record.
C7_NothingWhenBothOff ==
    (~check_spelling /\ ~check_grammar) =>
        \A k \in 1..Len(results) : \A j \in 1..Len(results[k][2]) :
            results[k][2][j][1] \notin {"spelling", "grammar", "statistical"}

\* C7 witness: both flags are false and the checker that just ran returned a
\* spelling and a grammar record.
C7_Witness ==
    /\ JustRan /\ outcome[Last] = "ok"
    /\ ~check_spelling /\ ~check_grammar
    /\ \E j, k \in 1..Len(errors) : errors[j][1] = "spelling" /\ errors[k][1] = "grammar"

\* C8: check_text of every checker class never leaves by an exception, and
\* whenever something failed inside the call (a helper raised, the model is
\* not available, the remote request failed) it returns a single record of
\* category error whose context is the input text.
C8_CheckerContract ==
    checker # "none" =>
        /\ ~raised
        /\ failure =>
            /\ Len(returned) = 1
            /\ returned[1][1] = "error"
            /\ returned[1][3] = text

\* C9: with checkers whose operations are pure functions of the text, a call
\* returns the results and corrections that an earlier call with the same
\* text and flags returned, whatever calls were made in between, and the
\* registry is as it was built.
C9_Deterministic ==
    /\ models = RegistryNames
    /\ (pc = "returned" /\ remembered.set
        /\ remembered.args = <<text, check_spelling, check_grammar>>) =>
            /\ results = remembered.results
            /\ corrections = remembered.corrections

\* C9 witness: a call returned whose arguments are those of a remembered call,
\* after a call with other arguments; it returned records, an error record
\* and a correction.
C9_Witness ==
    /\ pc = "returned" /\ remembered.set /\ remembered.others
    /\ remembered.args = <<text, check_spelling, check_grammar>>
    /\ Len(corrections) = 1
    /\ \E a, b \in Names :
        /\ outcome[a] = "correction raised"
        /\ Len(DictGet(results, b)) = 2

CategoryCount(recs, c) == Cardinality({j \in 1..Len(recs) : recs[j][1] = c})

RowCount(rows, n, c) ==
    Cardinality({j \in 1..Len(rows) : rows[j][1] = n /\ rows[j][2] = c})

\* C10: the rows create_error_visualization builds hold, for every checker
\* and every category other than error, as many rows as results of that
\* checker has records of that category, and no row of category error; a
\* checker with no records has no rows.
C10_Tally ==
    pc = "shown" =>
        /\ \A n \in Names : \A c \in Categories \ {"error"} :
            RowCount(error_data, n, c) = CategoryCount(DictGet(results, n), c)
        /\ \A j \in 1..Len(error_data) :
            /\ error_data[j][2] # "error"
            /\ DictGet(results, error_data[j][1]) # <<>>

\* C10 witness: rows were built from results in which one checker has two
\* records of one category, one has an error record and one has none.
C10_Witness ==
    /\ pc = "shown"
    /\ \E a, b, c \in Names :
        /\ CategoryCount(DictGet(results, a), "spelling") = 2
        /\ OneErrorRecord(DictGet(results, b))
        /\ DictGet(results, c) = <<>>
    /\ Len(error_data) = 2

(***************************************************************************)
(* Properties of GemmaChecker.check_text.                                  *)
(***************************************************************************)
GemmaRan == checker = "GemmaChecker"

\* C13 as stated: check_text returns exactly one record whose context is the
\* input text, of category error exactly when the string get_suggestions
\* returned starts with "Error" (get_suggestions itself raises nothing that
\* "except Exception" lets through), and of category info otherwise.
C13_AsStated ==
    GemmaRan =>
        /\ ~raised
        /\ Len(returned) = 1
        /\ returned[1][3] = text
        /\ returned[1][1] =
            (IF StartsWith(get_suggestions(fault), "Error") THEN "error" ELSE "info")

\* C13: check_text of GemmaChecker never raises and returns exactly one
\* record whose context is the input text; the record is of category error
\* when the suggestion starts with "Error" (its message is the suggestion) or
\* when the try block raised, which a completion without content makes
\* suggestions.startswith do (its message starts with "Error checking text: ");
\* it is the info record holding the suggestion otherwise.
C13_OneRecord ==
    GemmaRan =>
        /\ ~raised
        /\ Len(returned) = 1
        /\ returned[1][3] = text
        /\ returned[1][1] \notin {"spelling", "grammar", "statistical"}
        /\ IF fault = "no content"
           THEN /\ returned[1][1] = "error"
                /\ StartsWith(returned[1][2], "Error checking text: ")
           ELSE /\ returned[1][2] = get_suggestions(fault)
                /\ returned[1][1] =
                    (IF StartsWith(get_suggestions(fault), "Error")
                     THEN "error" ELSE "info")

\* C13 witness: the completion came without content and check_text returned
\* the error record of its except branch for a text of two tokens.
C13_Witness ==
    /\ GemmaRan /\ fault = "no content" /\ Len(text) = 2
    /\ returned = <<<<"error", "Error checking text: " \o AttributeError.str, text>>>>

(***************************************************************************)
(* Properties of the application.                                          *)
(***************************************************************************)
Registered(n) == \E k \in 1..Len(models) : models[k] = n

\* C11: building the analyzer never raises, whatever fails while a checker
\* is built; afterwards the checkers whose construction met no failure are
\* registered, and a checker whose construction failed (the deep learning
\* checker without its model) is either not registered or answers every
\* call with a single error record.
C11_ConstructionTolerant ==
    /\ pc # "init raised"
    /\ pc \notin {"new", "init raised"} =>
        /\ Registered("Rule-based") /\ Registered("Statistical")
        /\ (model_loaded => Registered("Deep Learning"))
    /\ (JustRan /\ Last = "Deep Learning" /\ ~model_loaded) =>
        \/ OneErrorRecord(errors)
        \/ OneErrorRecord(DictGet(results, Last))

\* The first-person subject word, and later in s the neuter verb suffix.
FirstPersonNeuter(s) ==
    \E j, k \in 1..Len(s) :
        j < k /\ "naan" \in Fragments(s[j]) /\ "kiradhu" \in Fragments(s[k])

\* C12: when nothing fails inside the call, for every sentence of the text
\* that holds the first-person subject word and later the neuter verb suffix,
\* check_text of the rule-based checker returns a grammar record whose
\* context is that sentence, and with check_grammar set that record is in
\* the results of the rule-based checker.
C12_GrammarPattern ==
    (JustRan /\ Last = "Rule-based" /\ fault = "none") =>
        LET sentences == split_sentences(text)
        IN  \A k \in 1..Len(sentences) :
                FirstPersonNeuter(sentences[k]) =>
                    \E j \in 1..Len(errors) :
                        /\ errors[j][1] = "grammar"
                        /\ errors[j][3] = sentences[k]
                        /\ check_grammar => Occurs(errors[j], DictGet(results, Last))

(***************************************************************************)
(* The shape of what analyze_text returns.                                 *)
(***************************************************************************)
RaisedIn(n) ==
    outcome[n] \in {"check_text raised", "unpack raised", "correction raised"}

Synthesized(recs, t) ==
    /\ Len(recs) = 1
    /\ recs[1][1] = "error"
    /\ StartsWith(recs[1][2], "Error processing text: ")
    /\ recs[1][3] = t

\* C14: every entry of results is either a sequence of records that are all
\* of category spelling, grammar or statistical, or the single record
\* ('error', a message beginning "Error processing text: ", the input text);
\* an error record is never next to another record; and the entry is the
\* single error record exactly when check_text, the unpacking of what it
\* returned, or the correction call raised in that checker's turn.
C14_OutputShape ==
    \A k \in 1..Len(results) :
        LET n    == results[k][1]
            recs == results[k][2]
        IN  /\ \/ \A j \in 1..Len(recs) :
                    recs[j][1] \in {"spelling", "grammar", "statistical"}
               \/ Synthesized(recs, text)
            /\ \A j \in 1..Len(recs) : recs[j][1] = "error" => Len(recs) = 1
            /\ Synthesized(recs, text) <=> RaisedIn(n)

\* C14 witness: a call returned in which one checker handed back an item
\* that does not unpack, the correction of another raised, and the third
\* one's check_text returned; the third has a record in results.
C14_Witness ==
    /\ pc = "returned"
    /\ \E a, b, c \in Names :
        /\ outcome[a] = "unpack raised"
        /\ outcome[b] = "correction raised"
        /\ outcome[c] = "ok" /\ Len(DictGet(results, c)) = 1

====
